---- MODULE Spec2Model ----
(***************************************************************************)
(* Webtapu extractor: the asynchronous job orchestration of app.py and    *)
(* the batch pipeline of pdf_processor.py.                                 *)
(*                                                                         *)
(* Threads: one request/worker thread per job id (api_process runs on the  *)
(* request thread and hands over to process_job on the worker thread; the  *)
(* request thread does nothing after worker.start()), and one thread per   *)
(* progress reader (api_progress).                                         *)
(***************************************************************************)
EXTENDS Integers, Sequences, FiniteSets, TLC

(* ---------------- bounds ---------------- *)
\* longest batch submitted to a job that runs alone
MaxDocs == 3
\* longest batch of the first of two jobs that run concurrently (the second
\* job submits one document)
ConcDocs == 1
\* longest batch submitted to a job whose progress stream is read
StreamDocs == 1

(* ---------------- universes ---------------- *)
AllJobIds == {"j1", "j2"}
AllReaderIds == {"r1", "r2"}
NoThread == "none"
None == "None"
Names == {"a.pdf", "b.pdf"}

\* What a PDF holds, as far as the per-document pipeline looks at it.
\*   wmOk      fitz opens and saves the document
\*   nTables   number of grids camelot returns
\*   kimlikInt the identity cell parses as an integer (and the fixed cells exist)
\*   nRows     rows of the 6-column restriction table after stitching and
\*             dropping the header row
\*   raises    a later stage (stitching, date parsing, ...) raises
DocOk == [id |-> "ok", wmOk |-> TRUE, nTables |-> 3, kimlikInt |-> TRUE, nRows |-> 2, raises |-> FALSE]
DocOkNoWm == [id |-> "okNoWm", wmOk |-> FALSE, nTables |-> 3, kimlikInt |-> TRUE, nRows |-> 1, raises |-> FALSE]
DocNoTables == [id |-> "noTables", wmOk |-> TRUE, nTables |-> 0, kimlikInt |-> TRUE, nRows |-> 0, raises |-> FALSE]
DocOneTable == [id |-> "oneTable", wmOk |-> TRUE, nTables |-> 1, kimlikInt |-> TRUE, nRows |-> 0, raises |-> FALSE]
DocBadKimlik == [id |-> "badKimlik", wmOk |-> TRUE, nTables |-> 3, kimlikInt |-> FALSE, nRows |-> 2, raises |-> FALSE]
DocEmptyRestr == [id |-> "emptyRestr", wmOk |-> TRUE, nTables |-> 3, kimlikInt |-> TRUE, nRows |-> 0, raises |-> FALSE]
DocRaises == [id |-> "raises", wmOk |-> TRUE, nTables |-> 3, kimlikInt |-> TRUE, nRows |-> 2, raises |-> TRUE]

Contents == {DocOk, DocOkNoWm, DocNoTables, DocOneTable, DocBadKimlik, DocEmptyRestr, DocRaises}
Absent == [id |-> "absent", wmOk |-> FALSE, nTables |-> 0, kimlikInt |-> FALSE, nRows |-> 0, raises |-> TRUE]

\* an uploaded file: its (secured) file name and its bytes; every kind of
\* document under the first name, two kinds under the second
Uploads == [name : {"a.pdf"}, content : Contents] \cup [name : {"b.pdf"}, content : {DocOk, DocEmptyRestr}]
SmallUploads == [name : {"a.pdf"}, content : {DocOk, DocEmptyRestr}]

SeqsUpTo(S, n) == UNION {[1..k -> S] : k \in 1..n}
Batches == SeqsUpTo(Uploads, MaxDocs)
StreamBatches == SeqsUpTo(SmallUploads, StreamDocs)
ConcBatches == SeqsUpTo(SmallUploads, ConcDocs)
SingleBatches == SeqsUpTo(SmallUploads, 1)

VARIABLES
    jobs,        \* the registry: job id -> job record (a dict; absent ids are not in DOMAIN)
    jobs_lock,   \* the thread holding jobs_lock, or NoThread
    queue,       \* job id -> contents of job["queue"]
    enqueued,    \* history: job id -> every event ever put on the job's queue, in order
    pc,          \* job id -> position of the job's request/worker thread
    valid_files, \* job id -> the uploads api_process accepted (name and bytes of each)
    ev,          \* job id -> argument of the emit_job_event call in progress
    ret,         \* job id -> where that call returns to
    pdf_paths,   \* job id -> the paths (file names inside the job's upload dir) handed to the worker
    upload,      \* job id -> the job's upload directory: name -> content or Absent
    cleaned,     \* the shared directory <temp_dir>/cleaned: name -> content or Absent
    cleaned_path,\* job id -> "cleaned" or "orig": where process_single_pdf reads the document from
    index,       \* job id -> loop index of process_multiple_pdfs (documents done)
    frames,      \* job id -> the frames list of process_multiple_pdfs
    failures,    \* job id -> the failures counter
    result,      \* job id -> what process_pdf_files returned / raised
    outputs,     \* the output files written so far (job ids)
    seen,        \* history: job id -> per document done, what was read and what came of it
    removed,     \* history: job id -> per path position, outcome of os.remove
    rpc,         \* reader id -> position of the reader thread
    rjob,        \* reader id -> job id the reader asked for
    delivered,   \* history: reader id -> the events event_stream yielded, in order
    arg,         \* the argument handed to the pure function under study
    out,         \* what the function returned or raised for arg, once applied
    again        \* what it returned or raised when applied to its own result

vars == <<jobs, jobs_lock, queue, enqueued, pc, valid_files, ev, ret, pdf_paths, upload, cleaned,
          cleaned_path, index, frames, failures, result, outputs, seen, removed, rpc, rjob, delivered,
          arg, out, again>>

workerVars == <<valid_files, pdf_paths, upload, cleaned, cleaned_path, index, frames, failures, result, outputs, seen, removed>>
readerVars == <<rpc, rjob, delivered>>
pureVars == <<arg, out, again>>
appVars == <<jobs, jobs_lock, queue, enqueued, pc, ev, ret, workerVars, readerVars>>

NoEvent == [event |-> "none"]
EmptyDir == [n \in Names |-> Absent]

\* nothing submitted, nobody connected
InitApp ==
    /\ jobs = <<>>
    /\ jobs_lock = NoThread
    /\ queue = [j \in AllJobIds |-> <<>>]
    /\ enqueued = [j \in AllJobIds |-> <<>>]
    /\ pc = [j \in AllJobIds |-> "idle"]
    /\ valid_files = [j \in AllJobIds |-> <<>>]
    /\ ev = [j \in AllJobIds |-> NoEvent]
    /\ ret = [j \in AllJobIds |-> "idle"]
    /\ pdf_paths = [j \in AllJobIds |-> <<>>]
    /\ upload = [j \in AllJobIds |-> EmptyDir]
    /\ cleaned = EmptyDir
    /\ cleaned_path = [j \in AllJobIds |-> "orig"]
    /\ index = [j \in AllJobIds |-> 0]
    /\ frames = [j \in AllJobIds |-> <<>>]
    /\ failures = [j \in AllJobIds |-> 0]
    /\ result = [j \in AllJobIds |-> "none"]
    /\ outputs = {}
    /\ seen = [j \in AllJobIds |-> <<>>]
    /\ removed = [j \in AllJobIds |-> <<>>]
    /\ rpc = [r \in AllReaderIds |-> "idle"]
    /\ rjob = [r \in AllReaderIds |-> None]
    /\ delivered = [r \in AllReaderIds |-> <<>>]

Init ==
    /\ InitApp
    /\ arg = None
    /\ out = None
    /\ again = None

(* ---------------- pure helpers ---------------- *)

\* data_extractor.extract_general_info: {} (here None) when there are fewer
\* than two tables or when a cell access / the int() of the identity number
\* raises; otherwise the document's info (identified by the content id).
extract_general_info(c) ==
    IF c.nTables < 2 THEN None
    ELSE IF ~c.kimlikInt THEN None
    ELSE c.id

\* process_single_pdf without the "if not general_info" return
process_single_pdf_NoInfoCheck(c) ==
    IF c.nTables = 0 THEN 0
    ELSE IF c.raises THEN 0
    ELSE IF c.nRows = 0 THEN 0
    ELSE c.nRows

\* the value standing for "the call raised" where a record count is expected
Raised == -1

\* PDFProcessor.process_single_pdf from the table extraction on: the number
\* of records of the returned frame, 0 standing for "returned None" (the
\* whole body is inside try/except Exception, so nothing is raised).
process_single_pdf(c) ==
    IF c.nTables = 0 THEN 0
    ELSE IF extract_general_info(c) = None THEN 0
    ELSE IF c.raises THEN 0
    ELSE IF c.nRows = 0 THEN 0
    ELSE c.nRows

\* the percentage of the documents done before this one
PercentOfPrevious(i, total) == IF total = 0 THEN 100 ELSE ((i - 1) * 100) \div total

\* percent = int((index / total) * 100) if total else 100
Percent(i, total) == IF total = 0 THEN 100 ELSE (i * 100) \div total

\* emit_job_event with the "complete" and "output_ready"/"finished" branches exchanged
JobAfterEventSwapped(job, e) ==
    IF e.event = "progress" THEN [job EXCEPT !.status = "processing", !.processed = e.current]
    ELSE IF e.event = "complete" THEN [job EXCEPT !.status = "completed"]
    ELSE IF e.event = "error" THEN [job EXCEPT !.status = "error", !.error = e.message]
    ELSE IF e.event \in {"output_ready", "finished"} THEN [job EXCEPT !.status = "finalizing"]
    ELSE job

\* the dict update of emit_job_event
JobAfterEvent(job, e) ==
    IF e.event = "progress" THEN [job EXCEPT !.status = "processing", !.processed = e.current]
    ELSE IF e.event = "complete" THEN [job EXCEPT !.status = "finalizing"]
    ELSE IF e.event = "error" THEN [job EXCEPT !.status = "error", !.error = e.message]
    ELSE IF e.event \in {"output_ready", "finished"} THEN [job EXCEPT !.status = "completed"]
    ELSE job

\* a critical section that is left without releasing the lock
ReleaseKeeps(t) == t

\* leaving a "with jobs_lock:" block
Release(t) == NoThread

\* the files a sequence of saves leaves in a directory (a later save of the
\* same name overwrites the earlier one)
RECURSIVE SaveAll(_, _)
SaveAll(dir, files) ==
    IF files = <<>> THEN dir
    ELSE SaveAll([dir EXCEPT ![Head(files).name] = Head(files).content], Tail(files))

DownloadName(paths) == IF Len(paths) = 1 THEN paths[1] ELSE "processed_files"

\* calling emit_job_event(job_id, e) and continuing at r afterwards
Call(j, e, r) ==
    /\ pc' = [pc EXCEPT ![j] = "emit_acq"]
    /\ ev' = [ev EXCEPT ![j] = e]
    /\ ret' = [ret EXCEPT ![j] = r]

(* ---------------- emit_job_event ---------------- *)

EmitAcquire(j) ==
    /\ pc[j] = "emit_acq"
    /\ jobs_lock = NoThread
    /\ jobs_lock' = j
    /\ pc' = [pc EXCEPT ![j] = "emit_cs"]
    /\ UNCHANGED <<pureVars, jobs, queue, enqueued, ev, ret, workerVars, readerVars>>

\* emit_job_event on a Queue(maxsize=2): put blocks while the queue is full
EmitBodyBounded(j) ==
    /\ pc[j] = "emit_cs"
    /\ Len(queue[j]) < 2
    /\ IF j \in DOMAIN jobs
       THEN /\ jobs' = [jobs EXCEPT ![j] = JobAfterEvent(jobs[j], ev[j])]
            /\ queue' = [queue EXCEPT ![j] = Append(@, ev[j])]
            /\ enqueued' = [enqueued EXCEPT ![j] = Append(@, ev[j])]
       ELSE UNCHANGED <<jobs, queue, enqueued>>
    /\ jobs_lock' = Release(j)
    /\ pc' = [pc EXCEPT ![j] = ret[j]]
    /\ UNCHANGED <<pureVars, ev, ret, workerVars, readerVars>>

EmitBody(j) ==
    /\ pc[j] = "emit_cs"
    /\ IF j \in DOMAIN jobs
       THEN /\ jobs' = [jobs EXCEPT ![j] = JobAfterEvent(jobs[j], ev[j])]
            /\ queue' = [queue EXCEPT ![j] = Append(@, ev[j])]
            /\ enqueued' = [enqueued EXCEPT ![j] = Append(@, ev[j])]
       ELSE UNCHANGED <<jobs, queue, enqueued>>
    /\ jobs_lock' = Release(j)
    /\ pc' = [pc EXCEPT ![j] = ret[j]]
    /\ UNCHANGED <<pureVars, ev, ret, workerVars, readerVars>>

(* ---------------- api_process ---------------- *)

\* lines 219-236: the request is accepted with a non-empty list of PDFs
ApiProcess(j, files) ==
    /\ pc[j] = "idle"
    /\ Len(files) > 0
    /\ valid_files' = [valid_files EXCEPT ![j] = files]
    /\ pc' = [pc EXCEPT ![j] = "cj_acq"]
    /\ UNCHANGED <<pureVars, jobs, jobs_lock, queue, enqueued, ev, ret, pdf_paths, upload, cleaned,
                   cleaned_path, index, frames, failures, result, outputs, seen, removed, readerVars>>

CreateJobAcquire(j) ==
    /\ pc[j] = "cj_acq"
    /\ jobs_lock = NoThread
    /\ jobs_lock' = j
    /\ pc' = [pc EXCEPT ![j] = "cj_cs"]
    /\ UNCHANGED <<pureVars, jobs, queue, enqueued, ev, ret, workerVars, readerVars>>

CreateJobBody(j) ==
    /\ pc[j] = "cj_cs"
    /\ jobs' = (j :> [status |-> "queued", total |-> Len(valid_files[j]), processed |-> 0,
                      output_path |-> None, error |-> None, download_name |-> None]) @@ jobs
    /\ jobs_lock' = Release(j)
    /\ pc' = [pc EXCEPT ![j] = "save"]
    /\ UNCHANGED <<pureVars, queue, enqueued, ev, ret, workerVars, readerVars>>

\* lines 239-255: every accepted file is saved under its secured name
SaveFiles(j) ==
    /\ pc[j] = "save"
    /\ upload' = [upload EXCEPT ![j] = SaveAll(@, valid_files[j])]
    /\ pdf_paths' = [pdf_paths EXCEPT ![j] = [i \in 1..Len(valid_files[j]) |-> valid_files[j][i].name]]
    /\ pc' = [pc EXCEPT ![j] = "meta_acq"]
    /\ UNCHANGED <<pureVars, jobs, jobs_lock, queue, enqueued, ev, ret, valid_files, cleaned, cleaned_path,
                   index, frames, failures, result, outputs, seen, removed, readerVars>>

MetaAcquire(j) ==
    /\ pc[j] = "meta_acq"
    /\ jobs_lock = NoThread
    /\ jobs_lock' = j
    /\ pc' = [pc EXCEPT ![j] = "meta_cs"]
    /\ UNCHANGED <<pureVars, jobs, queue, enqueued, ev, ret, workerVars, readerVars>>

\* lines 257-266: record the download name, then emit "queued"; the worker
\* thread starts when that call returns
MetaBody(j) ==
    /\ pc[j] = "meta_cs"
    /\ jobs' = IF j \in DOMAIN jobs
               THEN [jobs EXCEPT ![j].download_name = DownloadName(pdf_paths[j])]
               ELSE jobs
    /\ jobs_lock' = Release(j)
    /\ Call(j, [event |-> "queued", n |-> Len(pdf_paths[j])], "pj_start")
    /\ UNCHANGED <<pureVars, queue, enqueued, workerVars, readerVars>>

(* ---------------- process_job / process_pdf_files ---------------- *)

\* app.py 92-109 and pdf_processor.py 304, 118-127: the worker starts,
\* constructs the PDFProcessor (whose mkdir of the temp dir can raise inside
\* the try block of process_job) and announces the batch.
ProcessJobStart(j) ==
    /\ pc[j] = "pj_start"
    /\ \E mkdirOk \in BOOLEAN :
         IF mkdirOk
         THEN /\ Call(j, [event |-> "start", total |-> Len(pdf_paths[j])], "doc_wm")
              /\ UNCHANGED result
         ELSE /\ result' = [result EXCEPT ![j] = "raised in PDFProcessor"]
              /\ Call(j, [event |-> "error", message |-> "Unexpected error"], "cleanup")
    /\ UNCHANGED <<pureVars, jobs, jobs_lock, queue, enqueued, valid_files, pdf_paths, upload, cleaned,
                   cleaned_path, index, frames, failures, outputs, seen, removed, readerVars>>

\* process_single_pdf 50-57: write the scrubbed copy to <temp_dir>/cleaned/<name>,
\* or fall back to the original when the document cannot be opened
RemoveWatermarks(j) ==
    /\ pc[j] = "doc_wm"
    /\ LET name == pdf_paths[j][index[j] + 1]
           c == upload[j][name]
       IN IF c.wmOk
          THEN /\ cleaned' = [cleaned EXCEPT ![name] = c]
               /\ cleaned_path' = [cleaned_path EXCEPT ![j] = "cleaned"]
          ELSE /\ cleaned_path' = [cleaned_path EXCEPT ![j] = "orig"]
               /\ UNCHANGED cleaned
    /\ pc' = [pc EXCEPT ![j] = "doc_extract"]
    /\ UNCHANGED <<pureVars, jobs, jobs_lock, queue, enqueued, ev, ret, valid_files, pdf_paths, upload,
                   index, frames, failures, result, outputs, seen, removed, readerVars>>

\* process_single_pdf 59-100 and the loop body of process_multiple_pdfs 129-148.
\* An exception that left process_single_pdf would leave process_multiple_pdfs
\* and process_pdf_files too and land in the except clause of process_job.
ExtractDocument(j) ==
    /\ pc[j] = "doc_extract"
    /\ LET i == index[j] + 1
           total == Len(pdf_paths[j])
           name == pdf_paths[j][i]
           c == IF cleaned_path[j] = "cleaned" THEN cleaned[name] ELSE upload[j][name]
           rows == process_single_pdf(c)
           status == IF rows > 0 THEN "processed" ELSE "failed"
       IN IF rows = Raised
          THEN /\ result' = [result EXCEPT ![j] = "raised in document"]
               /\ Call(j, [event |-> "error", message |-> "Unexpected error"], "cleanup")
               /\ UNCHANGED <<index, frames, failures, seen>>
          ELSE /\ index' = [index EXCEPT ![j] = i]
               /\ frames' = [frames EXCEPT ![j] =
                      IF rows > 0
                      THEN Append(@, [source_file |-> name, info |-> extract_general_info(c), rows |-> rows])
                      ELSE @]
               /\ failures' = [failures EXCEPT ![j] = IF rows > 0 THEN @ ELSE @ + 1]
               /\ seen' = [seen EXCEPT ![j] = Append(@, [read |-> c, rows |-> rows,
                                                          nframes |-> Len(frames'[j]),
                                                          failures |-> failures'[j]])]
               /\ Call(j, [event |-> "progress", current |-> i, total |-> total,
                           percent |-> Percent(i, total), status |-> status, file |-> name],
                       IF i < total THEN "doc_wm" ELSE "aggregate")
               /\ UNCHANGED result
    /\ UNCHANGED <<pureVars, jobs, jobs_lock, queue, enqueued, valid_files, pdf_paths, upload, cleaned,
                   cleaned_path, outputs, removed, readerVars>>

\* process_multiple_pdfs reporting the number of documents as "processed"
AggregateCountsAll(j) ==
    /\ pc[j] = "aggregate"
    /\ IF frames[j] = <<>>
       THEN Call(j, [event |-> "error", message |-> "No dataframes produced from any PDF"], "ppf_empty")
       ELSE Call(j, [event |-> "complete", processed |-> Len(pdf_paths[j]), failures |-> failures[j]], "write")
    /\ UNCHANGED <<pureVars, jobs, jobs_lock, queue, enqueued, workerVars, readerVars>>

\* process_multiple_pdfs 150-175
Aggregate(j) ==
    /\ pc[j] = "aggregate"
    /\ IF frames[j] = <<>>
       THEN Call(j, [event |-> "error", message |-> "No dataframes produced from any PDF"], "ppf_empty")
       ELSE Call(j, [event |-> "complete", processed |-> Len(frames[j]), failures |-> failures[j]], "write")
    /\ UNCHANGED <<pureVars, jobs, jobs_lock, queue, enqueued, workerVars, readerVars>>

\* process_pdf_files 313-319: the empty frame came back
EmptyResult(j) ==
    /\ pc[j] = "ppf_empty"
    /\ result' = [result EXCEPT ![j] = "No data extracted from PDFs"]
    /\ Call(j, [event |-> "error", message |-> "No data extracted from PDFs"], "pj_fail")
    /\ UNCHANGED <<pureVars, jobs, jobs_lock, queue, enqueued, valid_files, pdf_paths, upload, cleaned,
                   cleaned_path, index, frames, failures, outputs, seen, removed, readerVars>>

\* process_pdf_files taking the output for written whatever the writer returned
WriteOutputIgnoresFailure(j) ==
    /\ pc[j] = "write"
    /\ \E success \in BOOLEAN :
         /\ outputs' = IF success THEN outputs \cup {j} ELSE outputs
         /\ result' = [result EXCEPT ![j] = "success"]
         /\ Call(j, [event |-> "output_ready", output_path |-> j], "succ_acq")
    /\ UNCHANGED <<pureVars, jobs, jobs_lock, queue, enqueued, valid_files, pdf_paths, upload, cleaned,
                   cleaned_path, index, frames, failures, seen, removed, readerVars>>

\* process_pdf_files 325-358: generate_excel / generate_csv succeed or fail
\* (api_process admits no other format, line 227)
WriteOutput(j) ==
    /\ pc[j] = "write"
    /\ \E success \in BOOLEAN :
         IF success
         THEN /\ outputs' = outputs \cup {j}
              /\ result' = [result EXCEPT ![j] = "success"]
              /\ Call(j, [event |-> "output_ready", output_path |-> j], "succ_acq")
         ELSE /\ UNCHANGED outputs
              /\ result' = [result EXCEPT ![j] = "Failed to generate output file"]
              /\ Call(j, [event |-> "error", message |-> "Failed to generate output file"], "pj_fail")
    /\ UNCHANGED <<pureVars, jobs, jobs_lock, queue, enqueued, valid_files, pdf_paths, upload, cleaned,
                   cleaned_path, index, frames, failures, seen, removed, readerVars>>

\* process_job 127-131: result["success"] is false
ResultFailure(j) ==
    /\ pc[j] = "pj_fail"
    /\ Call(j, [event |-> "error", message |-> result[j]], "cleanup")
    /\ UNCHANGED <<pureVars, jobs, jobs_lock, queue, enqueued, workerVars, readerVars>>

\* process_job 111-126: result["success"] is true
SuccessAcquire(j) ==
    /\ pc[j] = "succ_acq"
    /\ jobs_lock = NoThread
    /\ jobs_lock' = j
    /\ pc' = [pc EXCEPT ![j] = "succ_cs"]
    /\ UNCHANGED <<pureVars, jobs, queue, enqueued, ev, ret, workerVars, readerVars>>

SuccessBody(j) ==
    /\ pc[j] = "succ_cs"
    /\ jobs' = IF j \in DOMAIN jobs
               THEN [jobs EXCEPT ![j].output_path = j, ![j].status = "completed"]
               ELSE jobs
    /\ jobs_lock' = Release(j)
    /\ Call(j, [event |-> "finished", download_url |-> j,
                download_name |-> IF j \in DOMAIN jobs THEN jobs[j].download_name ELSE None],
            "cleanup")
    /\ UNCHANGED <<pureVars, queue, enqueued, workerVars, readerVars>>

\* a cleanup loop that an OSError ends
AfterRemoveAbort(j, k, outcome) ==
    IF outcome = "OSError" THEN "done"
    ELSE IF k < Len(pdf_paths[j]) THEN "cleanup" ELSE "done"

\* the position the cleanup loop moves to after trying path number k
AfterRemove(j, k, outcome) == IF k < Len(pdf_paths[j]) THEN "cleanup" ELSE "done"

\* process_job 137-143: os.remove of the next path; a path that is already
\* gone raises OSError, which is logged
Cleanup(j) ==
    /\ pc[j] = "cleanup"
    /\ LET k == Len(removed[j]) + 1
           name == pdf_paths[j][k]
           outcome == IF upload[j][name] # Absent THEN "removed" ELSE "OSError"
       IN /\ upload' = [upload EXCEPT ![j][name] = Absent]
          /\ removed' = [removed EXCEPT ![j] = Append(@, outcome)]
          /\ pc' = [pc EXCEPT ![j] = AfterRemove(j, k, outcome)]
    /\ UNCHANGED <<pureVars, jobs, jobs_lock, queue, enqueued, ev, ret, valid_files, pdf_paths, cleaned,
                   cleaned_path, index, frames, failures, result, outputs, seen, readerVars>>

(* ---------------- api_progress ---------------- *)

\* a client asks for the progress stream of job j (line 281: get_job)
ApiProgress(r, j) ==
    /\ rpc[r] = "idle"
    /\ rjob' = [rjob EXCEPT ![r] = j]
    /\ rpc' = [rpc EXCEPT ![r] = "gj_acq"]
    /\ UNCHANGED <<pureVars, jobs, jobs_lock, queue, enqueued, pc, ev, ret, workerVars, delivered>>

GetJobAcquire(r) ==
    /\ rpc[r] = "gj_acq"
    /\ jobs_lock = NoThread
    /\ jobs_lock' = r
    /\ rpc' = [rpc EXCEPT ![r] = "gj_cs"]
    /\ UNCHANGED <<pureVars, jobs, queue, enqueued, pc, ev, ret, workerVars, rjob, delivered>>

\* lines 86-89 and 282-288: 404 when the job is unknown, else the stream
\* opens with the "connected" handshake
GetJobBody(r) ==
    /\ rpc[r] = "gj_cs"
    /\ jobs_lock' = Release(r)
    /\ rpc' = [rpc EXCEPT ![r] = IF rjob[r] \in DOMAIN jobs THEN "stream" ELSE "notfound"]
    /\ UNCHANGED <<pureVars, jobs, queue, enqueued, pc, ev, ret, workerVars, rjob, delivered>>

IsTerminal(e) == e.event \in {"finished", "error"}

\* a LifoQueue in place of the Queue
QueueGetLast(q) == [item |-> q[Len(q)], rest |-> SubSeq(q, 1, Len(q) - 1)]

\* what queue.get(timeout=15) returns from a non-empty queue, and what it leaves
QueueGet(q) == [item |-> Head(q), rest |-> Tail(q)]

\* lines 291, 297-302: an event is read, yielded, and ends the stream when terminal
StreamEvent(r) ==
    /\ rpc[r] = "stream"
    /\ queue[rjob[r]] # <<>>
    /\ LET got == QueueGet(queue[rjob[r]])
       IN /\ queue' = [queue EXCEPT ![rjob[r]] = got.rest]
          /\ delivered' = [delivered EXCEPT ![r] = Append(@, got.item)]
          /\ rpc' = [rpc EXCEPT ![r] = IF IsTerminal(got.item) THEN "closed" ELSE "stream"]
    /\ UNCHANGED <<pureVars, jobs, jobs_lock, enqueued, pc, ev, ret, workerVars, rjob>>

\* lines 292-294: the queue stayed empty for the whole timeout, and the
\* generator yields the keep-alive comment
Heartbeat(r) ==
    /\ rpc[r] = "stream"
    /\ queue[rjob[r]] = <<>>
    /\ rpc' = [rpc EXCEPT ![r] = "heartbeat"]
    /\ UNCHANGED <<pureVars, jobs, jobs_lock, queue, enqueued, pc, ev, ret, workerVars, rjob, delivered>>

\* line 295: continue with the next queue.get
Continue(r) ==
    /\ rpc[r] = "heartbeat"
    /\ rpc' = [rpc EXCEPT ![r] = "stream"]
    /\ UNCHANGED <<pureVars, jobs, jobs_lock, queue, enqueued, pc, ev, ret, workerVars, rjob, delivered>>

\* the client goes away: the generator is closed at a yield
Disconnect(r) ==
    /\ rpc[r] \in {"stream", "heartbeat"}
    /\ rpc' = [rpc EXCEPT ![r] = "gone"]
    /\ UNCHANGED <<pureVars, jobs, jobs_lock, queue, enqueued, pc, ev, ret, workerVars, rjob, delivered>>

(* ---------------- specifications ---------------- *)

\* a request with some batch of B arrives for the (fresh) job id j
Submit(j, B) ==
    /\ pc[j] = "idle"
    /\ \E files \in B : ApiProcess(j, files)

\* a client opens the progress stream of some job of J
Attach(r, J) ==
    /\ rpc[r] = "idle"
    /\ \E j \in J : ApiProgress(r, j)

JobStep(j) ==
    \/ EmitAcquire(j) \/ EmitBody(j)
    \/ CreateJobAcquire(j) \/ CreateJobBody(j) \/ SaveFiles(j)
    \/ MetaAcquire(j) \/ MetaBody(j)
    \/ ProcessJobStart(j) \/ RemoveWatermarks(j) \/ ExtractDocument(j)
    \/ Aggregate(j) \/ EmptyResult(j) \/ WriteOutput(j)
    \/ ResultFailure(j) \/ SuccessAcquire(j) \/ SuccessBody(j)
    \/ Cleanup(j)

ReaderStep(r) ==
    \/ GetJobAcquire(r) \/ GetJobBody(r)
    \/ StreamEvent(r) \/ Heartbeat(r) \/ Continue(r) \/ Disconnect(r)

\* one job with every kind of batch, no reader attached
Next ==
    \/ Submit("j1", Batches)
    \/ JobStep("j1")

Spec == Init /\ [][Next]_vars

\* one job and the progress readers of it
NextStream ==
    \/ Submit("j1", StreamBatches)
    \/ JobStep("j1")
    \/ \E r \in AllReaderIds : Attach(r, {"j1"}) \/ ReaderStep(r)

SpecStream == Init /\ [][NextStream]_vars

\* two jobs running concurrently, and a client that looks a job up (the
\* stream that follows the lookup never touches jobs_lock)
NextConc ==
    \/ Submit("j1", ConcBatches) \/ Submit("j2", SingleBatches)
    \/ \E j \in AllJobIds : JobStep(j)
    \/ Attach("r1", AllJobIds) \/ GetJobAcquire("r1") \/ GetJobBody("r1")

SpecConc == Init /\ [][NextConc]_vars

\* every thread that can run does run: the worker, and a reader inside get_job
FairWorkers(J, R) ==
    /\ \A j \in J : WF_vars(JobStep(j))
    /\ \A r \in R : WF_vars(GetJobAcquire(r) \/ GetJobBody(r))

\* the loop of event_stream keeps running while the client stays
FairReaders(R) == \A r \in R : WF_vars(StreamEvent(r) \/ Heartbeat(r) \/ Continue(r))

FairWorkerSpec == SpecStream /\ FairWorkers({"j1"}, AllReaderIds)

FairStream == SpecStream /\ FairWorkers({"j1"}, AllReaderIds) /\ FairReaders(AllReaderIds)

FairConc == SpecConc /\ FairWorkers(AllJobIds, {"r1"})

(* ======================= claims ======================= *)

Indices(q, kind) == {i \in 1..Len(q) : q[i].event = kind}
HasEvent(j, kind) == Indices(enqueued[j], kind) # {}
Total(j) == Len(pdf_paths[j])

StatusRank(s) ==
    CASE s = "queued" -> 0
      [] s = "processing" -> 1
      [] s = "finalizing" -> 2
      [] s = "completed" -> 3
      [] s = "error" -> 4

\* C1: a job's status only moves forward along queued, processing,
\* finalizing, completed (never back), or to error; once it is error it stays error.
C1_StatusMonotonic ==
    [][\A j \in DOMAIN jobs :
          /\ j \in DOMAIN jobs'
          /\ StatusRank(jobs'[j].status) >= StatusRank(jobs[j].status)
          /\ (jobs[j].status = "error" => jobs'[j].status = "error")]_vars

\* an error status that has already survived a later event
C1_Witness ==
    \E j \in DOMAIN jobs :
        /\ jobs[j].status = "error"
        /\ Cardinality(Indices(enqueued[j], "error")) >= 2
        /\ HasEvent(j, "complete")

\* C2: a terminal event (finished or error) is the last event ever put on
\* the job's queue, so there is at most one of them.
C2_TerminalIsLast ==
    \A j \in AllJobIds :
        \A i \in 1..Len(enqueued[j]) :
            IsTerminal(enqueued[j][i]) => i = Len(enqueued[j])

\* C3: "finished" is emitted only for a job with at least one frame whose
\* output file was written, and a job that ends otherwise has emitted
\* "error", has emitted no "finished", and has status error.
C3_FinishedIffWritten ==
    \A j \in AllJobIds :
        LET good == frames[j] # <<>> /\ j \in outputs
        IN /\ HasEvent(j, "finished") => good
           /\ pc[j] = "done" =>
                /\ good => HasEvent(j, "finished")
                /\ ~good => /\ HasEvent(j, "error")
                            /\ ~HasEvent(j, "finished")
                            /\ jobs[j].status = "error"

\* a finished job whose documents yielded frames but whose output write failed
C3_Witness ==
    \E j \in AllJobIds :
        /\ pc[j] = "done"
        /\ frames[j] # <<>>
        /\ j \notin outputs
        /\ jobs[j].status = "error"

Yielded(j) == {i \in 1..Len(seen[j]) : seen[j][i].rows > 0}

\* C4: when k >= 1 of the N documents yielded records there is exactly one
\* "complete" event; it comes after all N progress events and carries
\* processed = k and failures = N - k; after a successful write a
\* "finished" event follows it.
C4_CompleteCounts ==
    \A j \in AllJobIds :
        LET q == enqueued[j]
            completes == Indices(q, "complete")
            k == Cardinality(Yielded(j))
        IN /\ Cardinality(completes) <= 1
           /\ \A i \in completes :
                /\ k >= 1
                /\ Cardinality(Indices(q, "progress")) = Total(j)
                /\ \A p \in Indices(q, "progress") : p < i
                /\ q[i].processed = k
                /\ q[i].failures = Total(j) - k
                /\ q[i].processed + q[i].failures = Total(j)
           /\ (pc[j] = "done" /\ k >= 1) =>
                /\ Cardinality(completes) = 1
                /\ j \in outputs => \E f \in Indices(q, "finished") : \A i \in completes : i < f

\* the 3-document batch with one failure, written and finished
C4_Witness ==
    \E j \in AllJobIds :
        /\ pc[j] = "done"
        /\ Total(j) = 3
        /\ Cardinality(Yielded(j)) = 2
        /\ HasEvent(j, "finished")

BadDoc(c) == c.nTables < 2 \/ ~c.kimlikInt \/ c.nRows = 0 \/ c.raises

\* C5: a document with fewer than 2 tables, failing general info, an empty
\* restriction table or a raising stage adds no frame and exactly one
\* failure; no exception leaves the per-document step, and the loop still
\* runs over every later document.
C5_DocumentFailureIsolated ==
    \A j \in AllJobIds :
        /\ result[j] # "raised in document"
        /\ \A i \in 1..Len(seen[j]) :
              BadDoc(seen[j][i].read) =>
                /\ seen[j][i].rows = 0
                /\ seen[j][i].nframes = (IF i = 1 THEN 0 ELSE seen[j][i - 1].nframes)
                /\ seen[j][i].failures = (IF i = 1 THEN 0 ELSE seen[j][i - 1].failures) + 1
        /\ (seen[j] # <<>> /\ pc[j] \in {"aggregate", "cleanup", "done"}) => Len(seen[j]) = Total(j)

\* a failed document followed by one that was still processed into a frame
C5_Witness ==
    \E j \in AllJobIds :
        /\ pc[j] = "done"
        /\ \E i, k \in 1..Len(seen[j]) :
              /\ i < k
              /\ seen[j][i].read.raises
              /\ seen[j][k].rows > 0

\* C6: when the worker has ended, os.remove has been tried on every path
\* of the job, also after one of them raised OSError, and no input file of
\* the job is left.
C6_CleanupOnEveryExit ==
    \A j \in AllJobIds :
        pc[j] = "done" =>
            /\ Len(removed[j]) = Total(j)
            /\ \A n \in Names : upload[j][n] = Absent

\* the second path was already gone, the third was still removed
C6_Witness ==
    \E j \in AllJobIds :
        /\ pc[j] = "done"
        /\ removed[j] = <<"removed", "OSError", "removed">>

HasTerminal(j) == \E i \in 1..Len(enqueued[j]) : IsTerminal(enqueued[j][i])

Streaming(r) == rpc[r] \in {"stream", "heartbeat"}

\* no other reader has taken an event of r's job
SoleReader(r) == \A o \in AllReaderIds \ {r} : rjob[o] # rjob[r] \/ delivered[o] = <<>>

FifoDelivery ==
    \A r \in AllReaderIds :
        (rjob[r] # None /\ SoleReader(r)) =>
            LET j == rjob[r]
                n == Len(delivered[r])
            IN /\ n <= Len(enqueued[j])
               /\ delivered[r] = SubSeq(enqueued[j], 1, n)
               /\ queue[j] = SubSeq(enqueued[j], n + 1, Len(enqueued[j]))
               /\ \A i \in 1..n : IsTerminal(delivered[r][i]) => i = n
               /\ rpc[r] = "closed" <=> (n > 0 /\ IsTerminal(delivered[r][n]))

KeepAliveTakesNothing ==
    \A r \in AllReaderIds :
        (rpc'[r] = "heartbeat" /\ rpc[r] # "heartbeat") => (queue' = queue /\ delivered' = delivered)

\* C7: what the reader of a job has delivered is, in order, exactly the
\* first events put on the queue, the rest is still queued in order, nothing
\* is delivered after a terminal event, and a keep-alive takes nothing from
\* the queue.
C7_FifoDelivery == []FifoDelivery /\ [][KeepAliveTakesNothing]_vars

\* the reader timed out after it had delivered three events in order
C7_Witness ==
    \E r \in AllReaderIds :
        /\ rpc[r] = "heartbeat"
        /\ SoleReader(r)
        /\ Len(delivered[r]) >= 3

\* C8: every reader of a job for which a terminal event was produced ends
\* its stream (by delivering a terminal event, unless the client leaves).
C8_EveryReaderEnds ==
    \A r \in AllReaderIds :
        (Streaming(r) /\ HasTerminal(rjob[r])) ~> (rpc[r] \in {"closed", "gone"})

\* C9: a job whose worker has started ends with a terminal event emitted
\* and status completed or error, whatever the readers do.
C9_WorkerTerminates ==
    \A j \in AllJobIds :
        (pc[j] = "pj_start") ~>
            (/\ pc[j] = "done"
             /\ HasTerminal(j)
             /\ jobs[j].status \in {"completed", "error"})

\* the job is over although its only reader went away and left events unread
C9_Witness ==
    \E j \in AllJobIds :
        /\ pc[j] = "done"
        /\ HasTerminal(j)
        /\ queue[j] # <<>>
        /\ \A r \in AllReaderIds : rpc[r] \in {"idle", "gone"}
        /\ \E r \in AllReaderIds : rpc[r] = "gone"

AcquirePcs == {"emit_acq", "cj_acq", "meta_acq", "succ_acq"}
LockedPcs == {"emit_cs", "cj_cs", "meta_cs", "succ_cs"}
UnlockedWorkPcs == {"doc_wm", "doc_extract", "write"}

LockSafety ==
    /\ \A j \in AllJobIds :
          /\ pc[j] \in UnlockedWorkPcs => jobs_lock # j
          /\ pc[j] \in AcquirePcs => jobs_lock # j
          /\ jobs_lock = j <=> pc[j] \in LockedPcs
    /\ \A r \in AllReaderIds :
          /\ rpc[r] = "gj_acq" => jobs_lock # r
          /\ jobs_lock = r <=> rpc[r] = "gj_cs"

\* a thread leaves a "with jobs_lock:" entry only by getting the lock
AcquireOnlyByLocking ==
    /\ \A j \in AllJobIds : (pc[j] \in AcquirePcs /\ pc'[j] # pc[j]) => jobs_lock' = j
    /\ \A r \in AllReaderIds : (rpc[r] = "gj_acq" /\ rpc'[r] # rpc[r]) => jobs_lock' = r

\* C10: no worker holds jobs_lock while it processes a document or writes
\* the output, no thread requests the lock while holding it, and every
\* thread that requests the lock gets it: it leaves the request only with
\* the lock in hand, and it does not stay in the request forever.
C10_LockDiscipline ==
    /\ []LockSafety
    /\ [][AcquireOnlyByLocking]_vars
    /\ \A j \in AllJobIds : []<>(pc[j] \notin AcquirePcs)
    /\ \A r \in AllReaderIds : []<>(rpc[r] # "gj_acq")

\* one worker is inside a document while the other worker waits for the
\* lock that the reader holds
C10_Witness ==
    /\ pc["j1"] = "doc_extract"
    /\ pc["j2"] \in AcquirePcs
    /\ jobs_lock = "r1"

(* ---------------- C11: concurrent jobs do not disturb each other ---------------- *)

\* what job j, run alone, reads for its i-th path: the bytes its own request
\* saved under that name (scrubbing keeps the document's identity)
OwnDocument(j, i) == SaveAll(EmptyDir, valid_files[j])[pdf_paths[j][i]]

\* C11: in every interleaving of two jobs, each document a job processes is
\* the job's own upload, so each output record carries the general info of
\* the document named in its source identifier and the job's records are
\* those of the job run alone; same file names in the two jobs included.
C11_JobsIsolated ==
    \A j \in AllJobIds :
        /\ \A i \in 1..Len(seen[j]) : seen[j][i].read = OwnDocument(j, i)
        /\ \A k \in 1..Len(frames[j]) :
               \E i \in 1..Len(seen[j]) :
                   /\ pdf_paths[j][i] = frames[j][k].source_file
                   /\ frames[j][k].info = extract_general_info(OwnDocument(j, i))
                   /\ frames[j][k].rows = process_single_pdf(OwnDocument(j, i))

(* ---------------- table stitching: the pure functions ---------------- *)

\* bounds of the grids explored (the program keeps the 6-column tables)
NCols == 2
MaxRows == 3

\* a cell is a string, modelled as the sequence of its characters
Whitespace == {" ", "\n"}
FirstCells == {<<>>, <<" ", "\n">>, <<"x">>, <<"z">>}
OtherCells == {<<" ">>, <<"y">>}
GridRows == {r \in [1..NCols -> FirstCells \cup OtherCells] :
                 r[1] \in FirstCells /\ \A c \in 2..NCols : r[c] \in OtherCells}
Grids == UNION {[1..n -> GridRows] : n \in 1..MaxRows}

\* Python's None where a string is expected
NoneStr == <<None>>

\* str.split(): the maximal runs of non-whitespace characters
RECURSIVE split(_, _, _)
split(value, word, parts) ==
    IF value = <<>>
    THEN IF word = <<>> THEN parts ELSE Append(parts, word)
    ELSE IF Head(value) \in Whitespace
         THEN split(Tail(value), <<>>, IF word = <<>> THEN parts ELSE Append(parts, word))
         ELSE split(Tail(value), Append(word, Head(value)), parts)

\* " ".join(parts)
RECURSIVE join(_)
join(parts) ==
    IF Len(parts) = 0 THEN <<>>
    ELSE IF Len(parts) = 1 THEN parts[1]
    ELSE parts[1] \o <<" ">> \o join(Tail(parts))

\* TextProcessor.clean: newlines removed, whitespace runs collapsed, edges
\* trimmed; None when nothing is left
clean(value) ==
    LET parts == split(SelectSeq(value, LAMBDA ch : ch # "\n"), <<>>, <<>>)
    IN IF Len(parts) > 0 THEN join(parts) ELSE NoneStr

\* str(r).strip() != ""
NotBlank(r) == \E i \in 1..Len(r) : r[i] \notin Whitespace

\* results of a call: returned rows, or the exception raised
NotRun == [state |-> "not run", rows |-> <<>>]
IndexError == [state |-> "IndexError", rows |-> <<>>]
Returned(rows) == [state |-> "returned", rows |-> rows]

\* fix_continuation 47-50: the continuation row merged into the previous row
merged(prev_row, row) ==
    [c \in 1..Len(row) |-> IF NotBlank(row[c]) THEN prev_row[c] \o <<" ">> \o row[c] ELSE prev_row[c]]

\* a new output row put in front of the rows collected so far
NewRowFirst(fixed_rows, row) == <<row>> \o fixed_rows

\* fix_continuation 53: fixed_rows.append(list(row))
NewRow(fixed_rows, row) == Append(fixed_rows, row)

\* fix_continuation 42-56: the walk over the rows; fixed_rows[-1] of an empty
\* list raises IndexError
RECURSIVE FixRows(_, _)
FixRows(df, fixed_rows) ==
    IF df = <<>> THEN Returned(fixed_rows)
    ELSE LET row == Head(df)
         IN IF clean(row[1]) = NoneStr
            THEN IF fixed_rows = <<>>
                 THEN IndexError
                 ELSE FixRows(Tail(df), [fixed_rows EXCEPT ![Len(fixed_rows)] = merged(@, row)])
            ELSE FixRows(Tail(df), NewRow(fixed_rows, row))

fix_continuation(df) == FixRows(df, <<>>)

\* extract_mulkiyete_ait_serh_beyan 75-78: the first row is dropped when its
\* first cell is the empty string, then the continuation rows are merged;
\* df.iloc[0, 0] of a table without rows raises IndexError
stitch(df) ==
    IF df = <<>> THEN IndexError
    ELSE fix_continuation(IF df[1][1] = <<>> THEN Tail(df) ELSE df)

(* ---------------- table stitching: specification ---------------- *)

InitStitch ==
    /\ InitApp
    /\ arg \in Grids
    /\ out = NotRun
    /\ again = NotRun

\* stitch applied to the grid
Stitch ==
    /\ out = NotRun
    /\ out' = stitch(arg)
    /\ UNCHANGED <<arg, again, appVars>>

\* stitch applied to the table it returned
StitchAgain ==
    /\ out.state = "returned"
    /\ again = NotRun
    /\ again' = stitch(out.rows)
    /\ UNCHANGED <<arg, out, appVars>>

NextStitch == Stitch \/ StitchAgain

SpecStitch == InitStitch /\ [][NextStitch]_vars

(* ---------------- C12: stitch is idempotent ---------------- *)

\* C12: for every grid on which stitch returns a result, stitching that
\* result again returns the same result.
C12_StitchIdempotent == again # NotRun => again = out

(* ---------------- C13: cell count and row order kept ---------------- *)

\* the rows that start an output row
Starters(df) == SelectSeq(df, LAMBDA row : clean(row[1]) # NoneStr)

IsPrefix(a, b) == Len(a) <= Len(b) /\ SubSeq(b, 1, Len(a)) = a

\* C13: every row stitch returns has as many cells as the input rows, and
\* the output rows are, in order, the input rows with a non-empty first cell
\* (each possibly extended by merged cells): merged, never reordered.
C13_ColumnsAndOrderKept ==
    out.state = "returned" =>
        /\ \A k \in 1..Len(out.rows) : Len(out.rows[k]) = Len(arg[1])
        /\ Len(out.rows) = Len(Starters(arg))
        /\ \A k \in 1..Len(out.rows) : \A c \in 1..Len(arg[1]) :
               IsPrefix(Starters(arg)[k][c], out.rows[k][c])

C13_Witness ==
    /\ out.state = "returned"
    /\ Len(out.rows) >= 2
    /\ Len(arg) > Len(out.rows)
    /\ out.rows[1][1] # out.rows[2][1]
    /\ \E k \in 1..Len(out.rows) : out.rows[k] # Starters(arg)[k]

(* ---------------- C14: every continuation row is merged ---------------- *)

\* positions of the starting rows, and of the k-th of them
StarterPos(df) == {i \in 1..Len(df) : clean(df[i][1]) # NoneStr}
KthStarter(df, k) == CHOOSE i \in StarterPos(df) : Cardinality({j \in StarterPos(df) : j < i}) = k - 1

\* the cells of column c of rows i..Len(df) up to the next starting row, each
\* non-empty one preceded by a single space
RECURSIVE Continued(_, _, _)
Continued(df, i, c) ==
    IF i > Len(df) \/ i \in StarterPos(df) THEN <<>>
    ELSE (IF clean(df[i][c]) # NoneStr THEN <<" ">> \o df[i][c] ELSE <<>>) \o Continued(df, i + 1, c)

\* C14: for every input grid stitch returns a result; each row with an empty
\* normalized first cell is merged into the output row before it (non-empty
\* cells appended after one space, empty cells changing nothing); no output
\* row has an empty first cell.
C14_ContinuationsMerged ==
    out # NotRun =>
        /\ out.state = "returned"
        /\ Len(out.rows) = Cardinality(StarterPos(arg))
        /\ \A k \in 1..Len(out.rows) :
               /\ clean(out.rows[k][1]) # NoneStr
               /\ \A c \in 1..Len(arg[1]) :
                      out.rows[k][c] = arg[KthStarter(arg, k)][c] \o Continued(arg, KthStarter(arg, k) + 1, c)

(* ---------------- C15: a blank first row is dropped ---------------- *)

\* C15: when the first cell of the first row is empty after clean, that row
\* is dropped and the result is the stitching of the remaining rows
\* (whenever those can be stitched on their own).
C15_BlankFirstRowDropped ==
    (out # NotRun /\ clean(arg[1][1]) = NoneStr /\ fix_continuation(Tail(arg)).state = "returned")
        => out = fix_continuation(Tail(arg))

(* ---------------- watermark scrubbing: the pure functions ---------------- *)

\* bound: operators per content stream
MaxOps == 3

\* A content stream is written as the sequence of its lexemes (the bytes
\* between them are single spaces where PDF needs one).  The streams explored
\* are sequences of these operators:
TfTarget == <<"/F1", "108.9", "Tf">>
TfNear == <<"/F1", "108.95", "Tf">>
TfOther == <<"/F1", "12", "Tf">>
TjOp == <<"(", "WM", ")", "Tj">>
TjNested == <<"(", "a", "(", "b", ")", "c", ")", "Tj">>
TJOp == <<"[", "(", "WM", ")", "]", "TJ">>
DashOp == <<"[", "3", "]", "0", "d">>
TdOp == <<"0", "0", "Td">>
Operators == {TfTarget, TfNear, TfOther, TjOp, TjNested, TJOp, DashOp, TdOp}
Streams == UNION {[1..n -> Operators] : n \in 1..MaxOps}

\* the bytes of a stream of operators
RECURSIVE Render(_)
Render(ops) == IF ops = <<>> THEN <<>> ELSE Head(ops) \o Render(Tail(ops))

Numbers == {"108.9", "108.95", "12", "3", "0"}
FontNames == {"/F1"}

\* float(m.group(1)), in hundredths
float(lexeme) ==
    CASE lexeme = "108.9" -> 10890
      [] lexeme = "108.95" -> 10895
      [] lexeme = "12" -> 1200
      [] lexeme = "3" -> 300
      [] lexeme = "0" -> 0

\* target_size and tolerance, in hundredths
target_size == 10890
tolerance == 5

\* current_size = None: no size set yet (no lexeme parses to it)
NoSize == -1

Abs(x) == IF x < 0 THEN 0 - x ELSE x

\* every size counts as the watermark's
InToleranceAlways(current_size) == TRUE

\* scrub_stream 52: current_size is not None and abs(current_size - target_size) <= tolerance
InTolerance(current_size) ==
    current_size # NoSize /\ Abs(current_size - target_size) <= tolerance

\* re_tf matches at position i: a name, a number, Tf
re_tf(buf, i) ==
    /\ i + 2 <= Len(buf)
    /\ buf[i] \in FontNames
    /\ buf[i + 1] \in Numbers
    /\ buf[i + 2] = "Tf"

\* re_tf.search(buf, pos): start of the first match at or after pos, 0 if none
search(buf, pos) ==
    IF \E i \in pos..Len(buf) : re_tf(buf, i)
    THEN CHOOSE i \in pos..Len(buf) : re_tf(buf, i) /\ \A k \in pos..(i - 1) : ~re_tf(buf, k)
    ELSE 0

\* where a match of re_tj that starts at "(" in position i ends (the Tj), 0
\* if there is none: the string runs to the first ")" and Tj must follow it
re_tj(chunk, i) ==
    IF chunk[i] = "(" /\ \E j \in (i + 1)..(Len(chunk) - 1) :
                             chunk[j] = ")" /\ chunk[j + 1] = "Tj"
                             /\ \A k \in (i + 1)..(j - 1) : chunk[k] # ")"
    THEN 1 + CHOOSE j \in (i + 1)..(Len(chunk) - 1) :
                 chunk[j] = ")" /\ \A k \in (i + 1)..(j - 1) : chunk[k] # ")"
    ELSE 0

\* where a match of re_TJ that starts at "[" in position i ends (the TJ), 0
\* if there is none: anything up to the first "]" that TJ follows
re_TJ(chunk, i) ==
    IF chunk[i] = "[" /\ \E j \in (i + 1)..(Len(chunk) - 1) : chunk[j] = "]" /\ chunk[j + 1] = "TJ"
    THEN 1 + CHOOSE j \in (i + 1)..(Len(chunk) - 1) :
                 /\ chunk[j] = "]" /\ chunk[j + 1] = "TJ"
                 /\ \A k \in (i + 1)..(j - 1) : ~(chunk[k] = "]" /\ chunk[k + 1] = "TJ")
    ELSE 0

\* re_tj.sub(b"() Tj", chunk) from position i on
RECURSIVE sub_tj(_, _)
sub_tj(chunk, i) ==
    IF i > Len(chunk) THEN <<>>
    ELSE IF re_tj(chunk, i) # 0
         THEN <<"(", ")", "Tj">> \o sub_tj(chunk, re_tj(chunk, i) + 1)
         ELSE <<chunk[i]>> \o sub_tj(chunk, i + 1)

\* re_TJ.sub(b"[] TJ", chunk) from position i on
RECURSIVE sub_TJ(_, _)
sub_TJ(chunk, i) ==
    IF i > Len(chunk) THEN <<>>
    ELSE IF re_TJ(chunk, i) # 0
         THEN <<"[", "]", "TJ">> \o sub_TJ(chunk, re_TJ(chunk, i) + 1)
         ELSE <<chunk[i]>> \o sub_TJ(chunk, i + 1)

\* scrub_stream 52-54 and 61-63
scrub_chunk(chunk, current_size) ==
    IF InTolerance(current_size) THEN sub_TJ(sub_tj(chunk, 1), 1) ELSE chunk

\* scrub_stream 36-58: the loop over the matches of re_tf, from position pos
RECURSIVE scrub_loop(_, _)
scrub_loop(buf, pos) ==
    LET m == search(buf, pos)
    IN IF m = 0 THEN <<>>
       ELSE LET nxt == search(buf, m + 3)
                chunk_end == IF nxt # 0 THEN nxt ELSE Len(buf) + 1
            IN SubSeq(buf, pos, m - 1) \o SubSeq(buf, m, m + 2)
               \o scrub_chunk(SubSeq(buf, m + 3, chunk_end - 1), float(buf[m + 1]))
               \o scrub_loop(buf, chunk_end)

\* scrub_stream 30-65; without any match of re_tf all of buf is the tail and
\* current_size is None
scrub_stream(buf) ==
    IF search(buf, 1) = 0 THEN scrub_chunk(buf, NoSize) ELSE scrub_loop(buf, 1)

(* ---------------- watermark scrubbing: specification ---------------- *)

InitScrub ==
    /\ InitApp
    /\ arg \in Streams
    /\ out = NotRun
    /\ again = NotRun

\* scrub_stream applied to the bytes of the stream
Scrub ==
    /\ out = NotRun
    /\ out' = Returned(scrub_stream(Render(arg)))
    /\ UNCHANGED <<arg, again, appVars>>

NextScrub == Scrub

SpecScrub == InitScrub /\ [][NextScrub]_vars

(* ---------------- C16: streams without the watermark size ---------------- *)

IsTf(op) == op[Len(op)] = "Tf"
ShowsText(op) == op[Len(op)] \in {"Tj", "TJ"}

\* C16: a content stream none of whose size-setting operators is within the
\* tolerance of the target size comes back from the scrubber unchanged.
C16_NoTargetSizeUnchanged ==
    (out # NotRun /\ \A i \in 1..Len(arg) : IsTf(arg[i]) => ~InTolerance(float(arg[i][2])))
        => out.rows = Render(arg)

C16_Witness ==
    /\ out # NotRun
    /\ \E i \in 1..Len(arg) : IsTf(arg[i])
    /\ \A i \in 1..Len(arg) : IsTf(arg[i]) => ~InTolerance(float(arg[i][2]))
    /\ \E i, k \in 1..Len(arg) : i < k /\ IsTf(arg[i]) /\ ShowsText(arg[k])
    /\ out.rows = Render(arg)

(* ---------------- C17: only the watermark's text is emptied ---------------- *)

\* the empty form of a text-showing operator
Emptied(op) == IF op[Len(op)] = "Tj" THEN <<"(", ")", "Tj">> ELSE <<"[", "]", "TJ">>

\* the stream with the text-showing operators of the matching segments
\* emptied and everything else as it was
RECURSIVE Expected(_, _)
Expected(ops, current_size) ==
    IF ops = <<>> THEN <<>>
    ELSE LET op == Head(ops)
         IN IF IsTf(op) THEN op \o Expected(Tail(ops), float(op[2]))
            ELSE (IF ShowsText(op) /\ InTolerance(current_size) THEN Emptied(op) ELSE op)
                 \o Expected(Tail(ops), current_size)

\* C17: the scrubber's output is its input with each Tj and TJ operator of a
\* matching segment replaced by its empty form, and every other byte kept,
\* those of operators containing "[" or "]" included.
C17_OnlyTextShowingEmptied == out # NotRun => out.rows = Expected(arg, NoSize)

(* ---------------- restriction fields: the pure functions ---------------- *)

\* A description is written as the sequence of its lexemes; these are the
\* descriptions of the tables explored (after clean and upper):
DescFull == <<"HACIZ", ":", "OFFICE", "NIN", "01/02/2020", "TARIH", "2020/15">>
DescNoOffice == <<"HACIZ", ":", "01/02/2020", "TARIH", "2020/15">>
DescNoDate == <<"HACIZ", ":", "TEXT">>
DescNoColon == <<"SERH">>
DescNoColonDate == <<"SERH", "01/02/2020", "TARIH", "2020/15">>
Descriptions == {DescFull, DescNoOffice, DescNoDate, DescNoColon, DescNoColonDate}
Tables == UNION {[1..n -> Descriptions] : n \in 1..MaxRows}

\* TextProcessor.capitalize of one word (toTitle)
Title(word) ==
    CASE word = "HACIZ" -> "Haciz"
      [] word = "SERH" -> "Serh"
      [] word = "OFFICE" -> "Office"
      [] word = "TEXT" -> "Text"
      [] OTHER -> word

\* TextProcessor.capitalize: None stays None
capitalize(text) == IF text = NoneStr THEN NoneStr ELSE [i \in 1..Len(text) |-> Title(text[i])]

\* clean of a text given by its lexemes: None when there is none
clean_text(text) == IF text = <<>> THEN NoneStr ELSE text

Min(S) == CHOOSE x \in S : \A y \in S : x <= y
Max(S) == CHOOSE x \in S : \A y \in S : y <= x

\* r_haciz_type = ^([^:(]+)\s*: , then fillna(''), clean, capitalize
haciz_type(aciklama) ==
    LET stops == {i \in 1..Len(aciklama) : aciklama[i] \in {":", "("}}
    IN IF stops # {} /\ Min(stops) > 1 /\ aciklama[Min(stops)] = ":"
       THEN capitalize(clean_text(SubSeq(aciklama, 1, Min(stops) - 1)))
       ELSE capitalize(clean_text(<<>>))

\* positions where (\d{2}/\d{2}/\d{4}|BILA) TARIH (number) matches
TarihAt(aciklama) ==
    {i \in 1..(Len(aciklama) - 2) :
        aciklama[i] = "01/02/2020" /\ aciklama[i + 1] = "TARIH" /\ aciklama[i + 2] = "2020/15"}

\* r_aciklama_relevant: what follows the first ": " up to the last date,
\* TARIH and number; NaN (here None) without a match
aciklama_relevant(aciklama) ==
    LET colons == {c \in 1..Len(aciklama) : aciklama[c] = ":" /\ \E i \in TarihAt(aciklama) : i > c}
    IN IF colons = {} THEN NoneStr
       ELSE SubSeq(aciklama, Min(colons) + 1, Max(TarihAt(aciklama)) + 2)

\* r_tarih_fileno: date and number of the first match
tarih_fileno(aciklama) ==
    IF TarihAt(aciklama) = {} THEN <<NoneStr, NoneStr>>
    ELSE <<(<<aciklama[Min(TarihAt(aciklama))]>>), (<<aciklama[Min(TarihAt(aciklama)) + 2]>>)>>

\* get_icra_dairesi, then clean and capitalize (extract_icra_dairesi)
icra_dairesi(value) ==
    IF value # NoneStr /\ \E i \in 1..Len(value) : value[i] = "NIN"
    THEN capitalize(clean_text(SubSeq(value, 1, Min({i \in 1..Len(value) : value[i] = "NIN"}) - 1)))
    ELSE NoneStr

ValueError == [state |-> "ValueError", rows |-> <<>>]

\* the four names assigned to concat.columns
ColumnNames == <<"haciz_type", "aciklama_ext", "aciklama_date", "aciklama_fileno">>

\* extract_aciklama 92-110: the fields are extracted from the rows of the
\* mask only; without any such row tarih_fileno is built with one column and
\* the assignment of the four column names raises ValueError
extract_aciklama(df) ==
    LET mask == {i \in 1..Len(df) : haciz_type(df[i]) # NoneStr}
        width == 1 + 1 + (IF mask # {} THEN 2 ELSE 1)
    IN IF width # Len(ColumnNames) THEN ValueError
       ELSE Returned([i \in 1..Len(df) |->
                [haciz_type |-> haciz_type(df[i]),
                 aciklama_ext |-> IF i \in mask THEN aciklama_relevant(df[i]) ELSE NoneStr,
                 aciklama_date |-> IF i \in mask THEN tarih_fileno(df[i])[1] ELSE NoneStr,
                 aciklama_fileno |-> IF i \in mask THEN tarih_fileno(df[i])[2] ELSE NoneStr]])

\* process_single_pdf returned None: the document failed
FailedDocument == [state |-> "None", rows |-> <<>>]

\* process_single_pdf 81-100: the fields of every row, next to the row; any
\* exception makes the document fail
restriction_fields(df_masb) ==
    LET df_aciklama == extract_aciklama(df_masb)
    IN IF df_aciklama.state # "returned" THEN FailedDocument
       ELSE Returned([i \in 1..Len(df_masb) |->
                [aciklama |-> df_masb[i],
                 haciz_type |-> df_aciklama.rows[i].haciz_type,
                 aciklama_ext |-> df_aciklama.rows[i].aciklama_ext,
                 aciklama_date |-> df_aciklama.rows[i].aciklama_date,
                 aciklama_fileno |-> df_aciklama.rows[i].aciklama_fileno,
                 icra_dairesi |-> icra_dairesi(df_aciklama.rows[i].aciklama_ext)]])

(* ---------------- restriction fields: specification ---------------- *)

InitFields ==
    /\ InitApp
    /\ arg \in Tables
    /\ out = NotRun
    /\ again = NotRun

\* the fields of the document's restriction table are extracted
ExtractFields ==
    /\ out = NotRun
    /\ out' = restriction_fields(arg)
    /\ UNCHANGED <<arg, again, appVars>>

NextFields == ExtractFields

SpecFields == InitFields /\ [][NextFields]_vars

(* ---------------- C18: rows without a colon ---------------- *)

NoColon(aciklama) == \A i \in 1..Len(aciklama) : aciklama[i] # ":"

\* C18: a restriction row whose description has no colon is kept in the
\* document's output with haciz_type, remainder, reference date, file number
\* and enforcement office all null, and the document does not fail; also
\* when no row of the document has a colon.
C18_NoColonRowKept ==
    out # NotRun =>
        /\ out.state = "returned"
        /\ Len(out.rows) = Len(arg)
        /\ \A i \in 1..Len(out.rows) :
               /\ out.rows[i].aciklama = arg[i]
               /\ NoColon(arg[i]) =>
                      /\ out.rows[i].haciz_type = NoneStr
                      /\ out.rows[i].aciklama_ext = NoneStr
                      /\ out.rows[i].aciklama_date = NoneStr
                      /\ out.rows[i].aciklama_fileno = NoneStr
                      /\ out.rows[i].icra_dairesi = NoneStr

(* ---------------- C19: order of the progress events ---------------- *)

ClosingKinds == {"complete", "error", "output_ready", "finished"}

C20_ProcessingWhileWorking ==
    \A j \in AllJobIds :
        pc[j] \in {"doc_wm", "doc_extract"} => jobs[j].status = "processing"

(* ---------------- C21: a completed job has its output recorded ---------------- *)

\* C21: in every reachable state a job whose status is completed has a
\* non-null output_path in the registry, so download_output for a job seen
\* as completed never finds the output path missing.
C21_CompletedHasOutputPath ==
    \A j \in DOMAIN jobs : jobs[j].status = "completed" => jobs[j].output_path # None
====
